---------------------------- MODULE Spec2Model ----------------------------
(***************************************************************************)
(* Model of the two estimators of src/notebooks/linreg.ipynb:              *)
(*   - class LinearRegression (OLS and ridge fit by the normal equation),  *)
(*   - class KNN (brute-force k-nearest-neighbours classifier).            *)
(*                                                                         *)
(* Numbers.  The code computes in IEEE doubles; the model computes the     *)
(* same expressions in exact rational arithmetic (a rational is a pair     *)
(* <<numerator, denominator>> in lowest terms with a positive              *)
(* denominator), so an equality of the model is an equality "up to         *)
(* rounding" of the code.                                                  *)
(*                                                                         *)
(* Objects.  Arrays live in a heap of named objects, so that               *)
(* numpy.asarray, which returns its argument itself when that already is   *)
(* an ndarray and a fresh array otherwise, is modelled by what it does.    *)
(***************************************************************************)
EXTENDS Integers, Sequences, FiniteSets, TLC

(***************************************************************************)
(* Bounds of the model.                                                    *)
(***************************************************************************)
\* largest number of training observations (rows of X)
MaxN == 2
\* largest number of predictors (columns of X)
MaxP == 2

\* values of the cells of a design matrix and of a response vector
Vals == {0, 1}
\* values of the cells of an observation handed to predict
ObsVals == {0, 1}
\* values of the ridge tuning parameter h
HVals == {0, 1, 2}
\* method arguments given to fit: the two supported ones and two others
Methods == {"OLS", "ridge", "lasso", "ols"}
\* what numpy.asarray may be handed: a Python list or an ndarray
Kinds == {"list", "ndarray"}

\* Python's None (no value); no array, vector or record of the model is empty
None == <<>>
\* fit's default for h
DefaultH == 1
\* the error field of an outcome when no exception was raised
NoError == "no error"

(***************************************************************************)
(* Exact rationals.                                                        *)
(***************************************************************************)
Abs(a) == IF a < 0 THEN -a ELSE a

RECURSIVE GCD(_, _)
GCD(a, b) == IF b = 0 THEN a ELSE GCD(b, a % b)

\* the rational n/d (d # 0) in lowest terms, denominator positive
Frac(n, d) ==
    LET g == GCD(Abs(n), Abs(d))
        s == IF d < 0 THEN -1 ELSE 1
    IN  <<(s * n) \div g, (s * d) \div g>>

Q(i) == <<i, 1>>

\* a + b over the least common denominator (keeps the integers small)
QAdd(a, b) ==
    IF a[2] = b[2] THEN Frac(a[1] + b[1], a[2])
    ELSE LET g == GCD(a[2], b[2])
         IN  Frac(a[1] * (b[2] \div g) + b[1] * (a[2] \div g),
                  (a[2] \div g) * b[2])

QNeg(a) == <<-a[1], a[2]>>
QSub(a, b) == QAdd(a, QNeg(b))

\* a * b, cancelling across before multiplying
QMul(a, b) ==
    IF a[1] = 0 \/ b[1] = 0 THEN <<0, 1>>
    ELSE LET g1 == GCD(Abs(a[1]), b[2])
             g2 == GCD(Abs(b[1]), a[2])
         IN  <<(a[1] \div g1) * (b[1] \div g2),
               (a[2] \div g2) * (b[2] \div g1)>>

\* a / b for b # 0
QDiv(a, b) ==
    QMul(a, IF b[1] < 0 THEN <<-b[2], -b[1]>> ELSE <<b[2], b[1]>>)
RECURSIVE QSum(_)
QSum(s) == IF s = <<>> THEN Q(0) ELSE QAdd(s[1], QSum(Tail(s)))

RECURSIVE Sum(_)
Sum(s) == IF s = <<>> THEN 0 ELSE s[1] + Sum(Tail(s))

(***************************************************************************)
(* Dense linear algebra on integer matrices (sequences of rows).           *)
(***************************************************************************)
NRows(M) == Len(M)
NCols(M) == Len(M[1])

\* np.transpose
Transpose(M) == [j \in 1..NCols(M) |-> [i \in 1..NRows(M) |-> M[i][j]]]

\* np.dot of two matrices
Dot(A, B) ==
    [i \in 1..NRows(A) |->
        [j \in 1..NCols(B) |-> Sum([k \in 1..NCols(A) |-> A[i][k] * B[k][j]])]]

\* np.dot of a matrix and a vector
DotVec(A, v) ==
    [i \in 1..NRows(A) |-> Sum([k \in 1..Len(v) |-> A[i][k] * v[k]])]

\* np.identity(p)
Identity(p) == [i \in 1..p |-> [j \in 1..p |-> IF i = j THEN 1 ELSE 0]]

\* h * M
Scale(h, M) == [i \in 1..NRows(M) |-> [j \in 1..NCols(M) |-> h * M[i][j]]]

\* A + B
MatAdd(A, B) ==
    [i \in 1..NRows(A) |-> [j \in 1..NCols(A) |-> A[i][j] + B[i][j]]]

\* M without row i and column j
Minor(M, i, j) ==
    [r \in 1..(NRows(M) - 1) |->
        [c \in 1..(NCols(M) - 1) |->
            M[IF r < i THEN r ELSE r + 1][IF c < j THEN c ELSE c + 1]]]

Sign(i) == IF i % 2 = 0 THEN 1 ELSE -1

RECURSIVE Det(_)
Det(M) ==
    IF NRows(M) = 1 THEN M[1][1]
    ELSE Sum([j \in 1..NCols(M) |->
                Sign(1 + j) * M[1][j] * Det(Minor(M, 1, j))])

Cofactor(M, i, j) ==
    IF NRows(M) = 1 THEN 1 ELSE Sign(i + j) * Det(Minor(M, i, j))

\* np.linalg.inv raises LinAlgError on a singular matrix (decided exactly here)
Singular(M) == Det(M) = 0

\* np.linalg.inv of a non-singular matrix: a matrix of rationals
Inv(M) ==
    LET det == Det(M)
    IN  [i \in 1..NRows(M) |->
            [j \in 1..NCols(M) |-> Frac(Cofactor(M, j, i), det)]]

\* np.dot of a matrix of rationals and an integer vector
DotQVec(A, v) ==
    [i \in 1..Len(A) |-> QSum([k \in 1..Len(v) |-> QMul(A[i][k], Q(v[k]))])]


(***************************************************************************)
(* State.                                                                  *)
(***************************************************************************)
VARIABLES
    heap,   \* the array objects: name -> [kind, data], or None when not allocated
    self,   \* the LinearRegression object, or None before its construction
    knn,    \* the KNN object, or None before its construction
    last    \* the most recent call (or caller's write) and its outcome

vars == <<heap, self, knn, last>>

\* rows of length p, matrices of n rows and p columns, vectors of length n
Vectors(n, S) == [1..n -> S]
Matrices(n, p, S) == [1..n -> [1..p -> S]]

\* the design matrices the caller may hold
DesignMatrices ==
    UNION {Matrices(n, p, Vals) : n \in 1..MaxN, p \in 1..MaxP}

\* the design matrix of a polynomial regression on the inputs 1..n: row i is
\* <<1, i, i^2, ...>> (an intercept column first, as in the notebook's data)
PolyDesign(n, p) == [i \in 1..n |-> [j \in 1..p |-> i ^ (j - 1)]]
PolyDesigns == {PolyDesign(n, p) : n \in 1..MaxN, p \in 1..MaxP}

\* the response vectors the caller may hold
Responses == UNION {Vectors(n, Vals) : n \in 1..MaxN}

\* the observation vectors handed to predict by a caller of a model with p
\* predictors: every length from 0 to p + 1
Observations(p) == UNION {Vectors(l, ObsVals) : l \in 0..(p + 1)}

\* a call and its outcome; classified lists the results of the classify calls
\* made on the way (test_error, train_error)
Outcome(op, args, error, value, classified) ==
    [op |-> op, args |-> args, error |-> error, value |-> value,
     classified |-> classified]

Call(op, args, error, value) == Outcome(op, args, error, value, <<>>)

\* no call is under way: the caller has taken the outcome of the last one
NoCall == Call("none", <<>>, NoError, None)
Idle == last = NoCall

(***************************************************************************)
(* numpy.asarray(obj): obj itself when it is an ndarray, otherwise a new   *)
(* ndarray (named fresh) holding a copy of its data.                       *)
(***************************************************************************)
asarray(hp, a, fresh) ==
    IF hp[a].kind = "ndarray"
    THEN [ref |-> a, heap |-> hp]
    ELSE [ref |-> fresh,
          heap |-> [hp EXCEPT ![fresh] =
                        [kind |-> "ndarray", data |-> hp[a].data]]]

(***************************************************************************)
(* class LinearRegression                                                  *)
(***************************************************************************)
\* the arrays self.X and self.y refer to
SelfX == heap[self.X].data
SelfY == heap[self.y].data

\* __init__(self, X, y), X and y being the caller's objects callerX, callerY
LinearRegressionInit(hp) ==
    IF Len(hp["callerX"].data) # Len(hp["callerY"].data)
    THEN [error |-> "ValueError", self |-> None, heap |-> hp]
    ELSE LET ax == asarray(hp, "callerX", "selfX")
             ay == asarray(ax.heap, "callerY", "selfY")
         IN  [error |-> NoError,
              self |-> [X |-> ax.ref, y |-> ay.ref,
                        n |-> Len(hp["callerX"].data),
                        p |-> Len(hp["callerX"].data[1]),
                        coefficients |-> None],
              heap |-> ay.heap]

\* RSS(self, b): ||y - Xb||^2
RSS(X, y, b) ==
    QSum([i \in 1..Len(X) |->
            LET r == QSub(Q(y[i]),
                          QSum([j \in 1..Len(b) |-> QMul(Q(X[i][j]), b[j])]))
            IN  QMul(r, r)])

\* TSS(self): sum((y - mean(y))^2)
TSS(y) ==
    LET mean == Frac(Sum(y), Len(y))
    IN  QSum([i \in 1..Len(y) |->
                LET d == QSub(Q(y[i]), mean) IN QMul(d, d)])

\* a penalty built from a matrix of ones in place of the identity
ShrinkageOnes(h, p) == [i \in 1..p |-> [j \in 1..p |-> h * h]]

\* a penalty subtracted from X^T X instead of added to it
ShrinkageNegated(h, p) ==
    LET I == Scale(h, Identity(p)) IN Scale(-1, Dot(Transpose(I), I))

\* a penalty built from the identity without the factor h
ShrinkageUnscaled(h, p) ==
    LET I == Identity(p) IN Dot(Transpose(I), I)

\* the ridge penalty added to X^T X: I = h*identity(p); dot(transpose(I), I)
Shrinkage(h, p) ==
    LET I == Scale(h, Identity(p)) IN Dot(Transpose(I), I)

\* the matrix fit inverts
NormalMatrix(X, p, method, h) ==
    LET X_trans == Transpose(X)
    IN  IF method = "OLS" THEN Dot(X_trans, X)
        ELSE MatAdd(Dot(X_trans, X), Shrinkage(h, p))

\* a fit that clears self.coefficients before it looks at the method
FitClearsFirst(X, y, p, coefficients, method, h) ==
    IF method \in {"OLS", "ridge"}
    THEN LET M == NormalMatrix(X, p, method, h)
             C == DotVec(Transpose(X), y)
         IN  IF Singular(M)
             THEN [error |-> "LinAlgError", coefficients |-> None]
             ELSE [error |-> NoError, coefficients |-> DotQVec(Inv(M), C)]
    ELSE [error |-> "ValueError", coefficients |-> None]

\* fit(self, method, h): the error raised, if any, and self.coefficients
\* after the call (coefficients are those before it); np.linalg.inv raises
\* on a singular matrix, before the assignment
fit(X, y, p, coefficients, method, h) ==
    IF method \in {"OLS", "ridge"}
    THEN LET M == NormalMatrix(X, p, method, h)
             C == DotVec(Transpose(X), y)
         IN  IF Singular(M)
             THEN [error |-> "LinAlgError", coefficients |-> coefficients]
             ELSE [error |-> NoError, coefficients |-> DotQVec(Inv(M), C)]
    ELSE [error |-> "ValueError", coefficients |-> coefficients]

\* zip(a, b): pairs up to the shorter of the two
Zip(a, b) ==
    [i \in 1..(IF Len(a) < Len(b) THEN Len(a) ELSE Len(b)) |-> <<a[i], b[i]>>]

\* a predict that takes missing coefficients for an empty vector
PredictNoneAsEmpty(coefficients, x) ==
    LET terms == Zip(coefficients, x)
    IN  [error |-> NoError,
         value |-> QSum([i \in 1..Len(terms) |->
                           QMul(terms[i][1], Q(terms[i][2]))])]

\* predict(self, x): zip(None, x) raises TypeError; zip of two sequences
\* stops at the shorter one
predict(coefficients, x) ==
    IF coefficients = None
    THEN [error |-> "TypeError", value |-> None]
    ELSE LET terms == Zip(coefficients, x)
         IN  [error |-> NoError,
              value |-> QSum([i \in 1..Len(terms) |->
                                QMul(terms[i][1], Q(terms[i][2]))])]

\* MSE(self)
MSE(X, y, n, coefficients) ==
    IF coefficients = None
    THEN [error |-> "TypeError", value |-> None]
    ELSE [error |-> NoError, value |-> QDiv(RSS(X, y, coefficients), Q(n))]

\* what numpy's float division by zero gives (with a warning, no exception)
NaN == <<0, 0>>
NegInf == <<-1, 0>>

\* r_squared(self); a zero TSS divides numpy floats: -inf or nan, no error
r_squared(X, y, coefficients) ==
    IF coefficients = None
    THEN [error |-> "TypeError", value |-> None]
    ELSE LET rss == RSS(X, y, coefficients)
             tss == TSS(y)
         IN  [error |-> NoError,
              value |-> IF tss # Q(0) THEN QSub(Q(1), QDiv(rss, tss))
                        ELSE IF rss = Q(0) THEN NaN ELSE NegInf]

(***************************************************************************)
(* The operations of a LinearRegression and of its caller.                 *)
(***************************************************************************)
CallerHeap(X, y, kind) ==
    [callerX |-> [kind |-> kind, data |-> X],
     callerY |-> [kind |-> kind, data |-> y],
     selfX |-> None, selfY |-> None]

\* the caller holds a design matrix and a response vector; nothing is built yet
Init ==
    /\ \E X \in PolyDesigns, y \in Responses, kind \in Kinds :
          heap = CallerHeap(X, y, kind)
    /\ self = None
    /\ knn = None
    /\ last = NoCall

Construct ==
    /\ self = None
    /\ Idle
    /\ LET out == LinearRegressionInit(heap)
       IN  /\ self' = out.self
           /\ heap' = out.heap
           /\ last' = Call("__init__", <<>>, out.error, None)
    /\ UNCHANGED knn

FitWith(method, h) ==
    /\ self # None
    /\ Idle
    /\ LET out == fit(SelfX, SelfY, self.p, self.coefficients, method, h)
       IN  /\ self' = [self EXCEPT !.coefficients = out.coefficients]
           /\ last' = Call("fit", <<method, h>>, out.error, None)
    /\ UNCHANGED <<heap, knn>>

\* h is used by the ridge method only; the other calls leave it at its default
HArgs(method) == IF method = "ridge" THEN HVals ELSE {DefaultH}

Fit == \E method \in Methods : \E h \in HArgs(method) : FitWith(method, h)

Predict ==
    /\ self # None
    /\ Idle
    /\ \E x \in Observations(self.p) :
          LET out == predict(self.coefficients, x)
          IN  last' = Call("predict", x, out.error, out.value)
    /\ UNCHANGED <<heap, self, knn>>

Mse ==
    /\ self # None
    /\ Idle
    /\ LET out == MSE(SelfX, SelfY, self.n, self.coefficients)
       IN  last' = Call("MSE", <<>>, out.error, out.value)
    /\ UNCHANGED <<heap, self, knn>>

RSquared ==
    /\ self # None
    /\ Idle
    /\ LET out == r_squared(SelfX, SelfY, self.coefficients)
       IN  last' = Call("r_squared", <<>>, out.error, out.value)
    /\ UNCHANGED <<heap, self, knn>>

\* the caller assigns to the first cell of an array it passed to __init__
CallerWrite ==
    /\ self # None
    /\ Idle
    /\ \E v \in Vals :
          \/ /\ heap' = [heap EXCEPT !["callerX"].data[1][1] = v]
             /\ last' = Call("write", <<"X", v>>, NoError, None)
          \/ /\ heap' = [heap EXCEPT !["callerY"].data[1] = v]
             /\ last' = Call("write", <<"y", v>>, NoError, None)
    /\ heap' # heap
    /\ UNCHANGED <<self, knn>>

\* the caller takes the outcome of the call (or notes its own write)
Return ==
    /\ ~Idle
    /\ last' = NoCall
    /\ UNCHANGED <<heap, self, knn>>

Next ==
    Construct \/ Fit \/ Predict \/ Mse \/ RSquared \/ CallerWrite \/ Return

Spec == Init /\ [][Next]_vars

(***************************************************************************)
(* Fitting alone, on every design matrix and response of the bounds: the   *)
(* model is built from the caller's lists, then fitted again and again.    *)
(***************************************************************************)
InitFit ==
    /\ \E X \in DesignMatrices :
          \E y \in Vectors(Len(X), Vals) :
             LET out == LinearRegressionInit(CallerHeap(X, y, "list"))
             IN  /\ heap = out.heap
                 /\ self = out.self
    /\ knn = None
    /\ last = NoCall

Refit ==
    \E method \in {"OLS", "ridge"} : \E h \in HArgs(method) : FitWith(method, h)

NextFit == Refit \/ Return

SpecFit == InitFit /\ [][NextFit]_vars


(***************************************************************************)
(* class KNN                                                               *)
(***************************************************************************)
\* largest number of training points handed to KNN
MaxTrain == 3
\* largest number of rows (and of labels) handed to test_error
MaxTest == 2

\* the class labels
Labels == {"a", "b"}
\* the training points: rows of one width, from two points of each width
TrainPoints == {{<<0>>, <<2>>}, {<<0, 0>>, <<2, 1>>}}
\* the k given to the constructor of a model of n points: below 1, 1..n, above n
KArgs(n) == 0..(n + 1)

\* the rows of a held-out set for a model of p predictors: the training
\* points and a point between them
TestRows(p) ==
    IF p = 1 THEN {<<0>>, <<1>>, <<2>>} ELSE {<<0, 0>>, <<1, 1>>, <<2, 1>>}

\* the feature vectors classified by a model of p predictors: those rows, and
\* vectors of every other length up to p + 1
Queries(p) ==
    TestRows(p) \cup UNION {Vectors(l, {0}) : l \in (0..(p + 1)) \ {p}}

\* math.sqrt(s), kept as its radicand: sqrt is increasing, and distinct small
\* integers have distinct square roots in doubles
Sqrt(s) == [sqrt |-> s]
SqrtLess(a, b) == a.sqrt < b.sqrt

\* distance(p1, p2): the Euclidean distance
distance(p1, p2) ==
    IF Len(p1) # Len(p2)
    THEN [error |-> "ValueError", value |-> None]
    ELSE [error |-> NoError,
          value |-> Sqrt(Sum([i \in 1..Len(p1) |->
                                (p1[i] - p2[i]) * (p1[i] - p2[i])]))]

\* sorted(distances, key=lambda x: x[0]): Python's sort is stable, so equal
\* keys keep their order in the list
SortedByDistance(distances) ==
    LET n == Len(distances)
        Before(i, j) ==
            \/ SqrtLess(distances[i][1], distances[j][1])
            \/ (distances[i][1] = distances[j][1] /\ i < j)
        Rank(i) == 1 + Cardinality({j \in 1..n : Before(j, i)})
    IN  [r \in 1..n |-> distances[CHOOSE i \in 1..n : Rank(i) = r]]

\* s[lo:hi] for 0-based lo >= 0 and any integer hi
PySlice(s, lo, hi) ==
    LET n == Len(s)
        Clamp(i) == IF i < 0 THEN (IF i + n < 0 THEN 0 ELSE i + n)
                    ELSE (IF i > n THEN n ELSE i)
    IN  SubSeq(s, Clamp(lo) + 1, Clamp(hi))

\* lst.count(c)
Count(lst, c) == Cardinality({i \in 1..Len(lst) : lst[i] = c})

\* _most_common(lst) = max(set(lst), key=lst.count): max of an empty set
\* raises; otherwise the first element of maximal count in the iteration
\* order of the set, which is any of the elements of maximal count
MostCommonOutcomes(lst) ==
    IF lst = <<>>
    THEN {[error |-> "ValueError", value |-> None]}
    ELSE LET set == {lst[i] : i \in 1..Len(lst)}
         IN  {[error |-> NoError, value |-> c] :
                c \in {c \in set : \A d \in set : Count(lst, d) <= Count(lst, c)}}

\* a slice that keeps the k closest points, the closest one included
NeighboursFromClosest(sorted, k) == PySlice(sorted, 0, k)

\* the part of the sorted list classify keeps: [1:self.k+1]
Neighbours(sorted, k) == PySlice(sorted, 1, k + 1)

\* the labels classify tallies for x
Classes(model, x) ==
    LET distances == [i \in 1..Len(model.X) |->
                        <<distance(x, model.X[i]).value, i>>]
        kept == Neighbours(SortedByDistance(distances), model.k)
        indexes == [i \in 1..Len(kept) |-> kept[i][2]]
    IN  [i \in 1..Len(indexes) |-> model.y[indexes[i]]]

\* classify(self, x): the outcomes it can end in
classify(model, x) ==
    IF Len(x) # model.p
    THEN {[error |-> "ValueError", value |-> None]}
    ELSE MostCommonOutcomes(Classes(model, x))

\* the loop of test_error and train_error from row i on; classified holds the
\* results of the classify calls made so far
RECURSIVE ErrorLoop(_, _, _, _, _, _)
ErrorLoop(model, X, y, i, incorrect, classified) ==
    IF i > Len(X)
    THEN {[incorrect |-> incorrect, error |-> NoError, classified |-> classified]}
    ELSE UNION {
            IF c.error # NoError
            THEN {[incorrect |-> incorrect, error |-> c.error,
                   classified |-> classified]}
            ELSE IF i > Len(y)
            THEN {[incorrect |-> incorrect, error |-> "IndexError",
                   classified |-> Append(classified, c.value)]}
            ELSE ErrorLoop(model, X, y, i + 1,
                           IF c.value # y[i] THEN incorrect + 1 ELSE incorrect,
                           Append(classified, c.value))
            : c \in classify(model, X[i])}

\* incorrect / d for Python ints
PyDiv(incorrect, d) ==
    IF d = 0 THEN [error |-> "ZeroDivisionError", value |-> None]
    ELSE [error |-> NoError, value |-> Frac(incorrect, d)]

\* test_error(self, X, y): the outcomes it can end in
test_error(model, X, y) ==
    {IF r.error # NoError
     THEN [error |-> r.error, value |-> None, classified |-> r.classified]
     ELSE [error |-> PyDiv(r.incorrect, Len(X)).error,
           value |-> PyDiv(r.incorrect, Len(X)).value,
           classified |-> r.classified] :
        r \in ErrorLoop(model, X, y, 1, 0, <<>>)}

\* train_error(self): the outcomes it can end in
train_error(model) ==
    {IF r.error # NoError
     THEN [error |-> r.error, value |-> None, classified |-> r.classified]
     ELSE [error |-> PyDiv(r.incorrect, model.n).error,
           value |-> PyDiv(r.incorrect, model.n).value,
           classified |-> r.classified] :
        r \in ErrorLoop(model, model.X, model.y, 1, 0, <<>>)}

\* __init__(self, X, y, k): reshape raises unless y has len(X) elements, and
\* X.shape raises unless X is an ndarray (or a dataframe); k is stored as given
KNNInit(X, y, k, kind) ==
    IF Len(y) # Len(X) THEN [error |-> "ValueError", knn |-> None]
    ELSE IF kind = "list" THEN [error |-> "AttributeError", knn |-> None]
    ELSE [error |-> NoError,
          knn |-> [X |-> X, y |-> y, n |-> Len(X), p |-> Len(X[1]), k |-> k]]

(***************************************************************************)
(* The operations of a KNN.                                                *)
(***************************************************************************)
InitKNN ==
    /\ heap = None
    /\ self = None
    /\ knn = None
    /\ last = NoCall

KNNConstruct ==
    /\ knn = None
    /\ Idle
    /\ \E P \in TrainPoints, n \in 1..MaxTrain, m \in 1..MaxTrain, kind \in Kinds :
          \E X \in Vectors(n, P), y \in Vectors(m, Labels), k \in KArgs(n) :
             LET out == KNNInit(X, y, k, kind)
             IN  /\ knn' = out.knn
                 /\ last' = Call("__init__", <<n, m, k, kind>>, out.error, None)
    /\ UNCHANGED <<heap, self>>

Classify ==
    /\ knn # None
    /\ Idle
    /\ \E x \in Queries(knn.p) :
          \E out \in classify(knn, x) :
             last' = Call("classify", x, out.error, out.value)
    /\ UNCHANGED <<heap, self, knn>>

TrainError ==
    /\ knn # None
    /\ Idle
    /\ \E out \in train_error(knn) :
          last' = Outcome("train_error", <<>>, out.error, out.value,
                          out.classified)
    /\ UNCHANGED <<heap, self, knn>>

TestError ==
    /\ knn # None
    /\ Idle
    /\ \E n \in 0..MaxTest, m \in 0..MaxTest :
          \E X \in Vectors(n, TestRows(knn.p)), y \in Vectors(m, Labels) :
             \E out \in test_error(knn, X, y) :
                last' = Outcome("test_error", <<X, y>>, out.error, out.value,
                                out.classified)
    /\ UNCHANGED <<heap, self, knn>>

NextKNN == KNNConstruct \/ Classify \/ TrainError \/ Return

SpecKNN == InitKNN /\ [][NextKNN]_vars

NextTest == KNNConstruct \/ TestError \/ Return

SpecTest == InitKNN /\ [][NextTest]_vars


(***************************************************************************)
(* Properties of LinearRegression.fit (checked under SpecFit).             *)
(***************************************************************************)
\* the last call was fit(method, h)
LastFit(method, h) == last.op = "fit" /\ last.args = <<method, h>>

\* X^T X and X^T y of the stored training data, written out entry by entry
Gram(i, j) == Sum([r \in 1..self.n |-> SelfX[r][i] * SelfX[r][j]])
Moment(i) == Sum([r \in 1..self.n |-> SelfX[r][i] * SelfY[r]])

\* b solves the system whose matrix is X^T X with d added to each diagonal
\* entry and nothing added elsewhere
SolvesShifted(b, d) ==
    \A i \in 1..self.p :
        QSum([j \in 1..self.p |->
                QMul(Q(Gram(i, j) + (IF i = j THEN d ELSE 0)), b[j])])
            = Q(Moment(i))

\* X^T X with d added to each diagonal entry
ShiftedGram(d) ==
    [i \in 1..self.p |->
        [j \in 1..self.p |-> Gram(i, j) + (IF i = j THEN d ELSE 0)]]

C3_RidgeZeroIsOLS ==
    (LastFit("ridge", 0) /\ ~Singular(ShiftedGram(0)))
        => /\ last.error = NoError
           /\ self.coefficients =
                fit(SelfX, SelfY, self.p, None, "OLS", DefaultH).coefficients
           /\ SolvesShifted(self.coefficients, 0)

\* C3's case: a ridge fit with h = 0 of a full-rank set of two predictors,
\* with a coefficient that is not zero
C3_Witness ==
    /\ LastFit("ridge", 0)
    /\ self.p = 2
    /\ ~Singular(ShiftedGram(0))
    /\ self.coefficients # None
    /\ \E j \in 1..2 : self.coefficients[j] # Q(0)

\* a <= b, and |a|, for rationals
QLeq(a, b) ==
    LET g == GCD(a[2], b[2])
    IN  a[1] * (b[2] \div g) <= b[1] * (a[2] \div g)
QAbs(a) == <<Abs(a[1]), a[2]>>

\* the coefficients of the ordinary-least-squares fit of the stored data
\* (the formulas bind it with a quantifier, so that it is computed once)
OLSCoefficients == fit(SelfX, SelfY, self.p, None, "OLS", DefaultH).coefficients

\* the sum of the squares of the cells of b
SumOfSquares(b) == QSum([j \in 1..Len(b) |-> QMul(b[j], b[j])])

\* the last call was a ridge fit (with any h) that succeeded, on full-rank data
RidgeFitOfFullRank ==
    /\ last.op = "fit"
    /\ last.args[1] = "ridge"
    /\ last.error = NoError
    /\ ~Singular(ShiftedGram(0))

\* C11 as stated: on a full-rank training set, for every predictor j and
\* every h >= 0, the magnitude of coefficient j after a ridge fit with h is
\* not larger than the magnitude of coefficient j of the OLS fit.
C11_EachCoefficientShrinks ==
    RidgeFitOfFullRank =>
        \A ols \in {OLSCoefficients} :
            \A j \in 1..self.p :
                QLeq(QAbs(self.coefficients[j]), QAbs(ols[j]))

\* C11 amended: on a full-rank training set, for every h >= 0, the sum of
\* the squared coefficients after a ridge fit with h is not larger than the
\* sum of the squared coefficients of the OLS fit (a single coefficient may
\* grow in magnitude).
C11_CoefficientNormShrinks ==
    RidgeFitOfFullRank =>
        \A ols \in {OLSCoefficients} :
            \A ridgeNorm \in {SumOfSquares(self.coefficients)} :
                \A olsNorm \in {SumOfSquares(ols)} :
                    QLeq(ridgeNorm, olsNorm)

\* C11's case: a ridge fit with h = 2 of full-rank data after which one
\* coefficient is larger in magnitude than that of the OLS fit, and another
\* is smaller
C11_Witness ==
    /\ RidgeFitOfFullRank
    /\ last.args[2] = 2
    /\ \E ols \in {OLSCoefficients} :
          /\ \E j \in 1..self.p :
                ~QLeq(QAbs(self.coefficients[j]), QAbs(ols[j]))
          /\ \E j \in 1..self.p :
                ~QLeq(QAbs(ols[j]), QAbs(self.coefficients[j]))

(***************************************************************************)
(* Properties of the life of a LinearRegression (checked under Spec).      *)
(***************************************************************************)
Supported == {"OLS", "ridge"}

\* C4: predict, MSE and r_squared called before the first successful fit end
\* in an error and return no value; the coefficients are unset from
\* construction until that first successful fit.
C4_UnfittedCallsFail ==
    /\ []((self # None /\ self.coefficients = None
            /\ last.op \in {"predict", "MSE", "r_squared"})
          => (last.error # NoError /\ last.value = None))
    /\ [][(self = None /\ self' # None) => self'.coefficients = None]_vars
    /\ [][(self # None /\ self.coefficients = None /\ self'.coefficients # None)
            => (last'.op = "fit" /\ last'.args[1] \in Supported
                /\ last'.error = NoError)]_vars

\* C4's case: predict was called with an observation of the right length on
\* a constructed model that holds no coefficients yet
C4_Witness ==
    /\ self # None
    /\ self.coefficients = None
    /\ last.op = "predict"
    /\ Len(last.args) = self.p
    /\ last.error = "TypeError"

\* C5: fit with a method other than the two supported ones fails with an
\* error and leaves the coefficients and the stored training data unchanged.
C5_UnknownMethodChangesNothing ==
    [][(Idle /\ last'.op = "fit" /\ last'.args[1] \notin Supported)
        => (last'.error = "ValueError" /\ self' = self /\ heap' = heap)]_vars

\* C5's case: fit with an unknown method failed on a model that holds the
\* coefficients of an earlier fit
C5_Witness ==
    /\ last.op = "fit"
    /\ last.args[1] \notin Supported
    /\ last.error = "ValueError"
    /\ self.coefficients # None

\* C6 as stated: on a fitted model of p predictors, predict(x) fails whenever
\* len(x) differs from p, and returns a value only when len(x) equals p.
C6_PredictChecksLength ==
    (self # None /\ self.coefficients # None /\ last.op = "predict")
        => /\ Len(last.args) # self.p => last.error # NoError
           /\ last.error = NoError => Len(last.args) = self.p

\* C10 as stated: once the model is constructed, no step (a write of the
\* caller to the arrays it passed in, in particular) changes the training
\* data the model holds.
C10_TrainingDataIsOwned ==
    [][self # None
        => (heap'[self'.X].data = heap[self.X].data
            /\ heap'[self'.y].data = heap[self.y].data)]_vars

(***************************************************************************)
(* Properties of KNN (checked under SpecKNN and SpecTest).                 *)
(***************************************************************************)
\* the training indexes ranked by ascending distance to x, ties by index
Ranking(model, x) ==
    LET d(i) == distance(x, model.X[i]).value.sqrt
        Before(i, j) == d(i) < d(j) \/ (d(i) = d(j) /\ i < j)
    IN  [r \in 1..model.n |->
            CHOOSE i \in 1..model.n :
                Cardinality({j \in 1..model.n : Before(j, i)}) = r - 1]

\* the labels of maximal count among the labels of the indexes in s
Majority(model, s) ==
    LET votes(c) == Cardinality({i \in 1..Len(s) : model.y[s[i]] = c})
    IN  {c \in Labels : votes(c) > 0 /\ \A d \in Labels : votes(d) <= votes(c)}

\* C1 as stated: for 1 <= k <= n and a query of length p, classify returns a
\* label of maximal count among the k training points closest to the query,
\* those at positions 0..k-1 of the ranking.
C1_ClassifyVotesAmongKClosest ==
    (knn # None /\ last.op = "classify" /\ Len(last.args) = knn.p
        /\ 1 <= knn.k /\ knn.k <= knn.n)
        => /\ last.error = NoError
           /\ last.value \in Majority(knn, SubSeq(Ranking(knn, last.args), 1, knn.k))

\* C7 as stated: no classifier exists whose k is outside 1..n.
C7_KWithinRange ==
    knn # None => (1 <= knn.k /\ knn.k <= knn.n)

\* C8 as stated: test_error fails whenever the number of rows differs from
\* the number of labels, before any row is classified.
C8_TestErrorChecksLengths ==
    (last.op = "test_error" /\ Len(last.args[1]) # Len(last.args[2]))
        => (last.error # NoError /\ last.classified = <<>>)

\* the number of rows whose classify result differs from its label
Misclassified(results, labels) ==
    Cardinality({i \in 1..Len(results) : results[i] # labels[i]})

\* C9 as stated: on a non-empty held-out set of as many rows as labels,
\* test_error of a classifier with 1 <= k <= n returns the number of rows
\* whose classify result differs from its label, divided by the number of
\* rows.
C9_TestErrorIsMisclassifiedFraction ==
    (last.op = "test_error" /\ Len(last.args[1]) = Len(last.args[2])
        /\ Len(last.args[1]) >= 1 /\ 1 <= knn.k /\ knn.k <= knn.n)
        => /\ last.error = NoError
           /\ Len(last.classified) = Len(last.args[1])
           /\ last.value = Frac(Misclassified(last.classified, last.args[2]),
                                Len(last.args[1]))

\* the number of labels C12 says are tallied: min(k, n-1)
Tallied(model) == IF model.k < model.n - 1 THEN model.k ELSE model.n - 1

\* the last call was classify of a query of length p on a classifier with
\* k >= 1
ClassifyWithPositiveK ==
    /\ knn # None
    /\ last.op = "classify"
    /\ Len(last.args) = knn.p
    /\ knn.k >= 1

=============================================================================
